---- MODULE Spec2Model ----
(***************************************************************************)
(* Model of python-scraper/app.py: a Flask application with two routes,    *)
(* home() on "/" and get_price() on "/request".  The server handles        *)
(* requests on concurrent workers (Flask's threaded development server);   *)
(* every worker runs one handler at a time, statement by statement, and    *)
(* the wall clock advances independently of the workers.                   *)
(*                                                                         *)
(* A Python value that may be None is a sequence: <<>> is None and <<s>>   *)
(* is the string s.  A JSON object is a function from its keys to values,  *)
(* a JSON array a sequence.  The rendered date is a sequence of            *)
(* characters.                                                             *)
(***************************************************************************)
EXTENDS Integers, Sequences, FiniteSets, TLC

(* ---------------------------- bounds ---------------------------------- *)

\* number of concurrent request workers
NumWorkers == 2

\* number of midnights the clock passes during a run
MaxTicks == 1

Workers == 1..NumWorkers

\* dates on which the run may begin: the last day of a year, so that day,
\* month and year all change at the first midnight
StartDates == { [y |-> 2025, m |-> 12, d |-> 31] }

\* values a client may supply for each query parameter ("" is `?k=`)
CommodityValues == {"", "Wheat"}
StateValues == {"", "Punjab"}
MarketValues == {"", "Ludhiana"}

\* str(e) of the exceptions the environment may raise inside the try block
FailureMessages == {"", "out of memory"}

(* ------------------------- the query string --------------------------- *)

ParamValues ==
    [commodity |-> CommodityValues, state |-> StateValues, market |-> MarketValues]

\* request.args: the parameters present in the query string, with values
QueryArgs ==
    UNION { { a \in [K -> CommodityValues \cup StateValues \cup MarketValues] :
                \A k \in K : a[k] \in ParamValues[k] } :
            K \in SUBSET {"commodity", "state", "market"} }

NoArgs == [k \in {} |-> ""]

Requests ==
    { [path |-> "/request", args |-> a] : a \in QueryArgs }
      \cup { [path |-> "/", args |-> NoArgs] }

NoRequest == [path |-> "", args |-> NoArgs]

(* --------------------------- Python values ---------------------------- *)

None == <<>>

\* request.args.get(key) / request.args.get(key, default)
ArgsGet(args, key, default) ==
    IF key \in DOMAIN args THEN <<args[key]>> ELSE default

\* mutant of Truthy: tests `is None` only, so '' counts as supplied
TruthyNotNone(v) == v # None

\* truth value of an Optional[str]: None and '' are falsy
Truthy(v) == v # None /\ v[1] # ""

(* ------------------------------ the date ------------------------------ *)

IsLeap(y) == (y % 4 = 0 /\ y % 100 # 0) \/ y % 400 = 0

DaysInMonth(y, m) ==
    IF m = 2 THEN (IF IsLeap(y) THEN 29 ELSE 28)
    ELSE IF m \in {4, 6, 9, 11} THEN 30 ELSE 31

\* the date the wall clock shows after the next midnight
NextDay(t) ==
    IF t.d < DaysInMonth(t.y, t.m) THEN [t EXCEPT !.d = t.d + 1]
    ELSE IF t.m < 12 THEN [t EXCEPT !.d = 1, !.m = t.m + 1]
    ELSE [y |-> t.y + 1, m |-> 1, d |-> 1]

Digit == <<"0", "1", "2", "3", "4", "5", "6", "7", "8", "9">>

DigitChar(n) == Digit[n + 1]

\* %b in the C locale
MonthAbbr ==
    << <<"J","a","n">>, <<"F","e","b">>, <<"M","a","r">>, <<"A","p","r">>,
       <<"M","a","y">>, <<"J","u","n">>, <<"J","u","l">>, <<"A","u","g">>,
       <<"S","e","p">>, <<"O","c","t">>, <<"N","o","v">>, <<"D","e","c">> >>

\* %d: day of the month as a zero-padded decimal number
PercentD(d) == <<DigitChar(d \div 10), DigitChar(d % 10)>>

\* %Y: the year as a decimal number, as many digits as it has
RECURSIVE PercentY(_)
PercentY(y) ==
    IF y < 10 THEN <<DigitChar(y)>>
    ELSE PercentY(y \div 10) \o <<DigitChar(y % 10)>>

\* t.strftime("%d %b %Y")
Strftime(t) ==
    PercentD(t.d) \o <<" ">> \o MonthAbbr[t.m] \o <<" ">> \o PercentY(t.y)

(* ----------------------------- responses ------------------------------ *)

HomeText ==
    "Agmarknet Scraper API is Running! Use /request?commodity=Wheat&state=Punjab"

MissingParams == "Please provide commodity and state"

\* jsonify({"error": message}), status
ErrorResponse(message, status) ==
    [status |-> status, body |-> ("error" :> message)]

\* mutant of City: the state is always used
CityState(mkt, st) == st[1]

\* mutant of City: the market is used without the fallback to the state
CityMarket(mkt, st) == mkt[1]

\* "City": market if market else state
City(mkt, st) == IF Truthy(mkt) THEN mkt[1] ELSE st[1]

\* mutant of PriceRecord: the values of "City" and "Commodity" are exchanged
PriceRecordSwapped(sno, city, com, minPrize, maxPrize, modelPrize, date) ==
    "S.No" :> sno @@ "City" :> com @@ "Commodity" :> city @@
    "Min Prize" :> minPrize @@ "Max Prize" :> maxPrize @@
    "Model Prize" :> modelPrize @@ "Date" :> date

\* the dict literal of get_price, one argument per value
PriceRecord(sno, city, com, minPrize, maxPrize, modelPrize, date) ==
    "S.No" :> sno @@ "City" :> city @@ "Commodity" :> com @@
    "Min Prize" :> minPrize @@ "Max Prize" :> maxPrize @@
    "Model Prize" :> modelPrize @@ "Date" :> date

\* mutant of Data: one row for the state and one for the market
DataPerPlace(com, st, mkt, date) ==
    << PriceRecord("1", st[1], com[1], "2200", "2400", "2300", date),
       PriceRecord("2", City(mkt, st), com[1], "2200", "2400", "2300", date) >>

\* mutant of Data: the price of a market differs from the state-wide price
DataMarketPrice(com, st, mkt, date) ==
    << PriceRecord("1", City(mkt, st), com[1],
                   IF Truthy(mkt) THEN "2250" ELSE "2200", "2400", "2300", date) >>

\* the list `data` built by get_price
Data(com, st, mkt, date) ==
    << PriceRecord("1", City(mkt, st), com[1], "2200", "2400", "2300", date) >>

\* return jsonify(data): status defaults to 200
OkResponse(data) == [status |-> 200, body |-> data]

NoResponse == [status |-> 0, body |-> ""]

NoDate == [y |-> 0, m |-> 0, d |-> 0]

(* ------------------------------- state -------------------------------- *)

VARIABLES
    clock,          \* the date datetime.now() would return
    ticks,          \* midnights passed since the start of the run
    pc,             \* pc[w]: the statement worker w executes next
    request,        \* request[w]: the request worker w is handling
    commodity,      \* locals of get_price, per worker
    state,
    market,
    current_date,
    exception,      \* exception[w]: str(e) of the exception raised, or None
    readClock,      \* readClock[w]: the clock when w called datetime.now()
    response        \* response[w]: what the handler returned

vars == <<clock, ticks, pc, request, commodity, state, market,
          current_date, exception, readClock, response>>

locals == <<commodity, state, market, current_date, exception, readClock>>

Init ==
    /\ clock \in StartDates
    /\ ticks = 0
    /\ pc = [w \in Workers |-> "idle"]
    /\ request = [w \in Workers |-> NoRequest]
    /\ commodity = [w \in Workers |-> None]
    /\ state = [w \in Workers |-> None]
    /\ market = [w \in Workers |-> None]
    /\ current_date = [w \in Workers |-> <<>>]
    /\ exception = [w \in Workers |-> None]
    /\ readClock = [w \in Workers |-> NoDate]
    /\ response = [w \in Workers |-> NoResponse]

(* ------------------------------ actions ------------------------------- *)

\* midnight passes
Tick ==
    /\ ticks < MaxTicks
    /\ clock' = NextDay(clock)
    /\ ticks' = ticks + 1
    /\ UNCHANGED <<pc, request, locals, response>>

\* Flask routes a GET request to the view function registered for its path
Dispatch(w, req) ==
    /\ pc[w] = "idle"
    /\ request' = [request EXCEPT ![w] = req]
    /\ pc' = [pc EXCEPT ![w] = IF req.path = "/" THEN "home" ELSE "get_price"]
    /\ UNCHANGED <<clock, ticks, locals, response>>

\* home()
Home(w) ==
    /\ pc[w] = "home"
    /\ response' = [response EXCEPT ![w] = [status |-> 200, body |-> HomeText]]
    /\ pc' = [pc EXCEPT ![w] = "done"]
    /\ UNCHANGED <<clock, ticks, request, locals>>

\* get_price up to the try block: the three request.args.get calls, then
\* if not commodity or not state: return jsonify({"error": ...}), 400
Validate(w) ==
    LET com == ArgsGet(request[w].args, "commodity", None)
        st == ArgsGet(request[w].args, "state", None)
        mkt == ArgsGet(request[w].args, "market", <<"">>)
    IN  /\ pc[w] = "get_price"
        /\ commodity' = [commodity EXCEPT ![w] = com]
        /\ state' = [state EXCEPT ![w] = st]
        /\ market' = [market EXCEPT ![w] = mkt]
        /\ IF ~Truthy(com) \/ ~Truthy(st)
           THEN /\ response' = [response EXCEPT ![w] = ErrorResponse(MissingParams, 400)]
                /\ pc' = [pc EXCEPT ![w] = "done"]
           ELSE /\ pc' = [pc EXCEPT ![w] = "now"]
                /\ UNCHANGED response
        /\ UNCHANGED <<clock, ticks, request, current_date, exception, readClock>>

\* mutant of Now: the formatted date is kept in a module global and reused
\* while some request still holds one
NowCached(w) ==
    /\ pc[w] = "now"
    /\ current_date' = [current_date EXCEPT ![w] =
           IF \E v \in Workers : current_date[v] # <<>>
           THEN current_date[CHOOSE v \in Workers : current_date[v] # <<>>]
           ELSE Strftime(clock)]
    /\ readClock' = [readClock EXCEPT ![w] = clock]
    /\ pc' = [pc EXCEPT ![w] = "return"]
    /\ UNCHANGED <<clock, ticks, request, commodity, state, market, exception,
                   response>>

\* get_price, in the try block: current_date = datetime.now().strftime(...)
Now(w) ==
    /\ pc[w] = "now"
    /\ current_date' = [current_date EXCEPT ![w] = Strftime(clock)]
    /\ pc' = [pc EXCEPT ![w] = "return"]
    /\ readClock' = [readClock EXCEPT ![w] = clock]
    /\ UNCHANGED <<clock, ticks, request, commodity, state, market, exception,
                   response>>

\* mutant of Return: `market` is a module global, here the one of worker 1
ReturnGlobalMarket(w) ==
    /\ pc[w] = "return"
    /\ response' = [response EXCEPT ![w] =
           OkResponse(Data(commodity[w], state[w],
                           IF market[1] = None THEN <<"">> ELSE market[1],
                           current_date[w]))]
    /\ pc' = [pc EXCEPT ![w] = "done"]
    /\ UNCHANGED <<clock, ticks, request, locals>>

\* get_price, in the try block: data = [...]; return jsonify(data)
Return(w) ==
    /\ pc[w] = "return"
    /\ response' = [response EXCEPT ![w] =
           OkResponse(Data(commodity[w], state[w], market[w], current_date[w]))]
    /\ pc' = [pc EXCEPT ![w] = "done"]
    /\ UNCHANGED <<clock, ticks, request, locals>>

\* mutant of Except: the try block also encloses the validation
ExceptAnywhere(w, message) ==
    /\ pc[w] \in {"get_price", "now", "return"}
    /\ exception' = [exception EXCEPT ![w] = <<message>>]
    /\ response' = [response EXCEPT ![w] = ErrorResponse(message, 500)]
    /\ pc' = [pc EXCEPT ![w] = "done"]
    /\ UNCHANGED <<clock, ticks, request, commodity, state, market,
                   current_date, readClock>>

\* mutant of Except: the status is left at jsonify's default
ExceptNoStatus(w, message) ==
    /\ pc[w] \in {"now", "return"}
    /\ exception' = [exception EXCEPT ![w] = <<message>>]
    /\ response' = [response EXCEPT ![w] = ErrorResponse(message, 200)]
    /\ pc' = [pc EXCEPT ![w] = "done"]
    /\ UNCHANGED <<clock, ticks, request, commodity, state, market,
                   current_date, readClock>>

\* get_price: a statement of the try block raises an exception e with
\* str(e) = message; except Exception as e: return jsonify({"error": str(e)}), 500
Except(w, message) ==
    /\ pc[w] \in {"now", "return"}
    /\ exception' = [exception EXCEPT ![w] = <<message>>]
    /\ response' = [response EXCEPT ![w] = ErrorResponse(message, 500)]
    /\ pc' = [pc EXCEPT ![w] = "done"]
    /\ UNCHANGED <<clock, ticks, request, commodity, state, market,
                   current_date, readClock>>

\* the response is sent; the request context and the frame's locals are gone
Send(w) ==
    /\ pc[w] = "done"
    /\ pc' = [pc EXCEPT ![w] = "idle"]
    /\ request' = [request EXCEPT ![w] = NoRequest]
    /\ readClock' = [readClock EXCEPT ![w] = NoDate]
    /\ commodity' = [commodity EXCEPT ![w] = None]
    /\ state' = [state EXCEPT ![w] = None]
    /\ market' = [market EXCEPT ![w] = None]
    /\ current_date' = [current_date EXCEPT ![w] = <<>>]
    /\ exception' = [exception EXCEPT ![w] = None]
    /\ response' = [response EXCEPT ![w] = NoResponse]
    /\ UNCHANGED <<clock, ticks>>

\* the service while nothing fails inside the try block
Next ==
    \/ Tick
    \/ \E w \in Workers, req \in Requests : Dispatch(w, req)
    \/ \E w \in Workers : Home(w)
    \/ \E w \in Workers : Validate(w)
    \/ \E w \in Workers : Now(w)
    \/ \E w \in Workers : Return(w)
    \/ \E w \in Workers : Send(w)

Spec == Init /\ [][Next]_vars

\* the service when statements of the try block may raise
NextFault ==
    \/ Next
    \/ \E w \in Workers, message \in FailureMessages : Except(w, message)

SpecFault == Init /\ [][NextFault]_vars

(* --------------------------- properties ------------------------------- *)

\* worker w holds the response to a GET /request
Answered(w) == pc[w] = "done" /\ request[w].path = "/request"

\* parameter k of w's request is present and non-empty
Supplied(w, k) == k \in DOMAIN request[w].args /\ request[w].args[k] # ""

\* w passed validation
Valid(w) == Supplied(w, "commodity") /\ Supplied(w, "state")

\* w answered 200 to a GET /request
Ok(w) == Answered(w) /\ response[w].status = 200

IsDigit(c) == \E n \in 0..9 : Digit[n + 1] = c

DigitValue(c) == CHOOSE n \in 0..9 : Digit[n + 1] = c

\* s reads "DD Mon YYYY"
IsDDMonYYYY(s) ==
    /\ Len(s) = 11
    /\ IsDigit(s[1]) /\ IsDigit(s[2])
    /\ s[3] = " "
    /\ \E m \in 1..12 : SubSeq(s, 4, 6) = MonthAbbr[m]
    /\ s[7] = " "
    /\ \A i \in 8..11 : IsDigit(s[i])

\* the date a "DD Mon YYYY" string denotes
ParseDate(s) ==
    [y |-> 1000 * DigitValue(s[8]) + 100 * DigitValue(s[9])
             + 10 * DigitValue(s[10]) + DigitValue(s[11]),
     m |-> CHOOSE m \in 1..12 : SubSeq(s, 4, 6) = MonthAbbr[m],
     d |-> 10 * DigitValue(s[1]) + DigitValue(s[2])]

\* C1: a GET /request whose commodity or state is absent or empty is
\* answered 400 with the body {"error": "Please provide commodity and
\* state"}, whatever the market.
C1_MissingParamsGive400 ==
    \A w \in Workers :
        (Answered(w) /\ ~Valid(w)) =>
            /\ response[w].status = 400
            /\ response[w].body = ("error" :> "Please provide commodity and state")

C1_Witness ==
    \E w \in Workers :
        /\ Answered(w)
        /\ "commodity" \in DOMAIN request[w].args
        /\ request[w].args["commodity"] = ""
        /\ Supplied(w, "state")
        /\ Supplied(w, "market")
        /\ response[w].status = 400

\* C2: with commodity, state and market all present and non-empty, the City
\* of the returned record is the market, not the state.
C2_CityIsMarket ==
    \A w \in Workers :
        (Ok(w) /\ Valid(w) /\ Supplied(w, "market")) =>
            /\ response[w].body[1]["City"] = request[w].args["market"]
            /\ (request[w].args["market"] # request[w].args["state"] =>
                   response[w].body[1]["City"] # request[w].args["state"])

C2_Witness ==
    \E w \in Workers :
        /\ Ok(w)
        /\ Supplied(w, "market")
        /\ response[w].body[1]["City"] = "Ludhiana"

\* C3: with commodity and state present and non-empty and the market absent
\* or empty, the City of the returned record is the state.
C3_CityIsState ==
    \A w \in Workers :
        (Ok(w) /\ Valid(w) /\ ~Supplied(w, "market")) =>
            response[w].body[1]["City"] = request[w].args["state"]

C3_Witness ==
    \E w, v \in Workers :
        /\ Ok(w) /\ Ok(v)
        /\ "market" \notin DOMAIN request[w].args
        /\ "market" \in DOMAIN request[v].args /\ request[v].args["market"] = ""
        /\ response[w].body[1]["City"] = "Punjab"
        /\ response[v].body[1]["City"] = "Punjab"

\* C4: every 200 response of GET /request carries an array of exactly one
\* element.
C4_OneElement ==
    \A w \in Workers : Ok(w) => Len(response[w].body) = 1

C4_Witness ==
    \E w, v \in Workers :
        /\ Ok(w) /\ Ok(v)
        /\ Supplied(w, "market") /\ ~Supplied(v, "market")
        /\ Len(response[w].body) = 1 /\ Len(response[v].body) = 1

\* C5: in every 200 response of GET /request, Min Prize, Max Prize and Model
\* Prize are "2200", "2400" and "2300" and S.No is "1", whatever the
\* parameters.
C5_FixedFields ==
    \A w \in Workers :
        Ok(w) =>
            /\ response[w].body[1]["Min Prize"] = "2200"
            /\ response[w].body[1]["Max Prize"] = "2400"
            /\ response[w].body[1]["Model Prize"] = "2300"
            /\ response[w].body[1]["S.No"] = "1"

C5_Witness ==
    \E w, v \in Workers :
        /\ Ok(w) /\ Ok(v)
        /\ Supplied(w, "market") /\ ~Supplied(v, "market")
        /\ response[w].body[1]["Min Prize"] = "2200"
        /\ response[v].body[1]["Min Prize"] = "2200"

\* C6: in every 200 response of GET /request, Commodity is the commodity
\* parameter of that same request, unchanged.
C6_CommodityEchoed ==
    \A w \in Workers :
        Ok(w) =>
            /\ "commodity" \in DOMAIN request[w].args
            /\ response[w].body[1]["Commodity"] = request[w].args["commodity"]

C6_Witness ==
    \E w \in Workers : Ok(w) /\ response[w].body[1]["Commodity"] = "Wheat"

\* C7: when a request passed validation and a failure occurs while the
\* record is built, the response is 500 with body {"error": <message of the
\* failure>}, and it is no price record.
C7_FailureGives500 ==
    \A w \in Workers :
        (Answered(w) /\ Valid(w) /\ exception[w] # None) =>
            /\ response[w].status = 500
            /\ response[w].body = ("error" :> exception[w][1])

C7_Witness ==
    \E w \in Workers :
        /\ Answered(w) /\ Valid(w)
        /\ exception[w] = <<"out of memory">>
        /\ current_date[w] # <<>>
        /\ response[w].status = 500

C9_DateIsToday ==
    \A w \in Workers :
        Ok(w) =>
            /\ IsDDMonYYYY(response[w].body[1]["Date"])
            /\ ParseDate(response[w].body[1]["Date"]) = readClock[w]

C9_Witness ==
    \E w, v \in Workers :
        /\ Ok(w) /\ Ok(v)
        /\ response[w].body[1]["Date"] = <<"3","1"," ","D","e","c"," ","2","0","2","5">>
        /\ response[v].body[1]["Date"] = <<"0","1"," ","J","a","n"," ","2","0","2","6">>

\* C10: a GET /request is answered 400 exactly when commodity or state is
\* absent or empty, 200 exactly when both are supplied and nothing failed,
\* and 500 exactly when both are supplied and something failed; there is no
\* other status.
C10_StatusByValidation ==
    \A w \in Workers :
        Answered(w) =>
            /\ response[w].status \in {200, 400, 500}
            /\ (response[w].status = 400 <=> ~Valid(w))
            /\ (response[w].status = 200 <=> (Valid(w) /\ exception[w] = None))
            /\ (response[w].status = 500 <=> (Valid(w) /\ exception[w] # None))

C10_Witness ==
    \E u, w \in Workers :
        /\ Answered(u) /\ Answered(w)
        /\ response[u].status = 400
        /\ response[w].status = 500

====
